---- MODULE Spec2Model ----
(***************************************************************************)
(* Model of backend/ai/main.py: the /generate-schema endpoint, its image   *)
(* normaliser (process_image), the DatabaseSchema validation contract and  *)
(* the two upstream calls (vision, structured extraction with retries).    *)
(***************************************************************************)
EXTENDS Integers, Sequences, FiniteSets, TLC

\* ------------------------------------------------------------------------
\* Bounds and program constants
\* ------------------------------------------------------------------------

\* Largest number of pixels of a decodable upload.
MaxPixels == 2

\* Faulty variant: one retry more.
MutMaxRetries == 2 + 1

\* max_retries=2 of the structured-extraction call.
max_retries == 2

\* The brightness threshold of the dark-mode check.
DarkThreshold == 128

\* The concurrent requests of the model.
Requests == {"r1", "r2"}

\* Python's None.
None == "<None>"

\* A field absent from the model's JSON output.
Missing == "<missing>"

\* ------------------------------------------------------------------------
\* Bytes, base64
\* ------------------------------------------------------------------------

\* base64.b64encode: every 3 bytes become 4 six-bit symbols (0..63); a
\* trailing group of 1 or 2 bytes is zero-filled and padded with "=" (64).
RECURSIVE b64encode(_)
b64encode(bytes) ==
    IF Len(bytes) = 0 THEN << >>
    ELSE IF Len(bytes) = 1 THEN
        << bytes[1] \div 4, (bytes[1] % 4) * 16, 64, 64 >>
    ELSE IF Len(bytes) = 2 THEN
        << bytes[1] \div 4,
           (bytes[1] % 4) * 16 + bytes[2] \div 16,
           (bytes[2] % 16) * 4,
           64 >>
    ELSE
        << bytes[1] \div 4,
           (bytes[1] % 4) * 16 + bytes[2] \div 16,
           (bytes[2] % 16) * 4 + bytes[3] \div 64,
           bytes[3] % 64 >>
        \o b64encode(SubSeq(bytes, 4, Len(bytes)))

\* ------------------------------------------------------------------------
\* Images (PIL).  A raster file is a signature byte followed by one R,G,B
\* byte triple per pixel; anything else does not decode.
\* ------------------------------------------------------------------------

Signature == << 137 >>

RECURSIVE Triples(_)
Triples(bytes) ==
    IF Len(bytes) = 0 THEN << >>
    ELSE << << bytes[1], bytes[2], bytes[3] >> >>
         \o Triples(SubSeq(bytes, 4, Len(bytes)))

RECURSIVE Flatten(_)
Flatten(px) ==
    IF Len(px) = 0 THEN << >> ELSE px[1] \o Flatten(Tail(px))

Decodable(bytes) ==
    /\ Len(bytes) >= 4
    /\ SubSeq(bytes, 1, 1) = Signature
    /\ (Len(bytes) - 1) % 3 = 0

\* Image.open(io.BytesIO(image_bytes)).convert("RGB"); only called on
\* decodable bytes (Image.open raises otherwise).
ImageOpenRGB(bytes) ==
    [mode |-> "RGB", px |-> Triples(SubSeq(bytes, 2, Len(bytes)))]

\* image.save(buffer, format="PNG"); buffer.getvalue()
SavePNG(image) == Signature \o Flatten(image.px)

\* image.convert("L"): ITU-R 601-2 luma, one integer per pixel.
ConvertL(image) ==
    [mode |-> "L",
     px |-> [i \in 1..Len(image.px) |->
               (image.px[i][1] * 299 + image.px[i][2] * 587
                  + image.px[i][3] * 114) \div 1000]]

RECURSIVE SeqSum(_)
SeqSum(s) == IF Len(s) = 0 THEN 0 ELSE s[1] + SeqSum(Tail(s))

\* .resize((1,1)): the whole image averaged into one pixel.
Resize1x1(image) ==
    [mode |-> image.mode,
     px |-> IF image.mode = "L"
            THEN << SeqSum(image.px) \div Len(image.px) >>
            ELSE << [c \in 1..3 |->
                       SeqSum([i \in 1..Len(image.px) |-> image.px[i][c]])
                          \div Len(image.px)] >>]

\* .getpixel((0,0)): an integer for a single-band image, a tuple for a
\* multi-band one.
GetPixel00(image) ==
    IF image.mode = "L"
    THEN [kind |-> "int", v |-> image.px[1]]
    ELSE [kind |-> "tuple", v |-> image.px[1]]

\* Python's sum(x): x must be iterable; an int raises TypeError.
PySum(x) ==
    IF x.kind = "tuple"
    THEN [raised |-> FALSE, v |-> SeqSum(x.v)]
    ELSE [raised |-> TRUE, v |-> "TypeError"]

\* ImageOps.invert
Invert(image) ==
    [mode |-> image.mode,
     px |-> [i \in 1..Len(image.px) |->
               [c \in 1..3 |-> 255 - image.px[i][c]]]]

RECURSIVE SeqMin(_)
SeqMin(s) ==
    IF Len(s) = 1 THEN s[1]
    ELSE LET m == SeqMin(Tail(s)) IN IF s[1] < m THEN s[1] ELSE m

RECURSIVE SeqMax(_)
SeqMax(s) ==
    IF Len(s) = 1 THEN s[1]
    ELSE LET m == SeqMax(Tail(s)) IN IF s[1] > m THEN s[1] ELSE m

\* ImageOps.autocontrast (cutoff 0): per band, the darkest value maps to 0
\* and the lightest to 255; a band with one value only is left as it is.
AutoContrast(image) ==
    LET band(c) == [i \in 1..Len(image.px) |-> image.px[i][c]]
        lo(c) == SeqMin(band(c))
        hi(c) == SeqMax(band(c))
        lut(c, v) == IF hi(c) <= lo(c) THEN v
                     ELSE ((v - lo(c)) * 255) \div (hi(c) - lo(c))
    IN [mode |-> image.mode,
        px |-> [i \in 1..Len(image.px) |->
                  [c \in 1..3 |-> lut(c, image.px[i][c])]]]

\* The brightness the check of process_image is after: the luminance of the
\* image downsampled to one pixel.
Brightness(image) == Resize1x1(ConvertL(image)).px[1]

\* The try-body of process_image as Python evaluates it: the value
\* returned, or that an exception was raised.
ProcessImageTry(image_bytes) ==
    IF ~Decodable(image_bytes)
    THEN [raised |-> TRUE, v |-> << >>]
    ELSE LET image == ImageOpenRGB(image_bytes)
             s == PySum(GetPixel00(Resize1x1(ConvertL(image))))
         IN IF s.raised
            THEN [raised |-> TRUE, v |-> << >>]
            ELSE LET image2 == IF s.v < DarkThreshold
                               THEN Invert(image) ELSE image
                     image3 == AutoContrast(image2)
                 IN [raised |-> FALSE, v |-> b64encode(SavePNG(image3))]

\* What the except clause of process_image does with a raised exception.
ProcessImageExcept(image_bytes) ==
    [raised |-> FALSE, v |-> b64encode(image_bytes)]

\* Faulty variant: no except clause, the exception escapes.
MutProcessImage(image_bytes) == ProcessImageTry(image_bytes)

\* process_image(image_bytes)
process_image(image_bytes) ==
    LET t == ProcessImageTry(image_bytes)
    IN IF t.raised THEN ProcessImageExcept(image_bytes) ELSE t

\* ------------------------------------------------------------------------
\* Schema Type Model (pydantic): Column, Table, Relationship, DatabaseSchema
\* ------------------------------------------------------------------------

SQLiteType == {"UUID", "TEXT", "INTEGER", "BOOLEAN", "TIMESTAMP", "JSON"}

RelationshipType == {"1:1", "1:N", "N:N"}

\* A JSON boolean field with default False.
ValidBool(v) == v \in {"true", "false", Missing}

ParseBool(v) == v = "true"

\* Faulty variant: type declared as a plain str.
MutValidColumnType(t) == t # Missing

\* type: SQLiteType = Field(...): required, one of the literals exactly.
ValidColumnType(t) == t \in SQLiteType

ValidColumn(c) ==
    /\ c.name # Missing
    /\ ValidColumnType(c.type)
    /\ ValidBool(c.is_primary_key)
    /\ ValidBool(c.is_foreign_key)

ParseColumn(c) ==
    [name |-> c.name, type |-> c.type,
     is_primary_key |-> ParseBool(c.is_primary_key),
     is_foreign_key |-> ParseBool(c.is_foreign_key)]

ValidTable(t) ==
    /\ t.name # Missing
    /\ t.has_columns
    /\ \A i \in 1..Len(t.columns) : ValidColumn(t.columns[i])

ParseTable(t) ==
    [name |-> t.name,
     columns |-> [i \in 1..Len(t.columns) |-> ParseColumn(t.columns[i])]]

\* type: Literal["1:1", "1:N", "N:N"] = "1:N"
ValidRelationship(x) ==
    /\ x.from_table # Missing
    /\ x.from_column # Missing
    /\ x.to_table # Missing
    /\ x.to_column # Missing
    /\ x.type \in RelationshipType \cup {Missing}

ParseRelationship(x) ==
    [from_table |-> x.from_table, from_column |-> x.from_column,
     to_table |-> x.to_table, to_column |-> x.to_column,
     type |-> IF x.type = Missing THEN "1:N" ELSE x.type]

\* DatabaseSchema.model_validate_json(raw): the parsed schema, or the
\* exception Instructor catches.
Validate(raw) ==
    IF ~raw.json
    THEN [ok |-> FALSE, error |-> "JSONDecodeError", schema |-> << >>]
    ELSE IF /\ raw.has_tables
            /\ raw.has_relationships
            /\ \A i \in 1..Len(raw.tables) : ValidTable(raw.tables[i])
            /\ \A i \in 1..Len(raw.relationships) :
                  ValidRelationship(raw.relationships[i])
    THEN [ok |-> TRUE, error |-> "",
          schema |-> << [tables |-> [i \in 1..Len(raw.tables) |->
                                       ParseTable(raw.tables[i])],
                         relationships |->
                             [i \in 1..Len(raw.relationships) |->
                                ParseRelationship(raw.relationships[i])]] >>]
    ELSE [ok |-> FALSE, error |-> "ValidationError", schema |-> << >>]

\* A schema object as the endpoint may return it.
IsDatabaseSchema(s) ==
    /\ \A i \in 1..Len(s.tables) :
          \A j \in 1..Len(s.tables[i].columns) :
             /\ s.tables[i].columns[j].type \in SQLiteType
             /\ s.tables[i].columns[j].is_primary_key \in BOOLEAN
             /\ s.tables[i].columns[j].is_foreign_key \in BOOLEAN
    /\ \A i \in 1..Len(s.relationships) :
          s.relationships[i].type \in RelationshipType

\* ------------------------------------------------------------------------
\* Inputs: uploads and upstream responses
\* ------------------------------------------------------------------------

ContentTypes ==
    {"image/jpeg", "image/png", "image/webp", "text/plain"}

\* Faulty variant: text/plain let through.
MutAllowedContentTypes ==
    {"image/jpeg", "image/png", "image/webp", "text/plain"}

\* The list of line 113.
AllowedContentTypes == {"image/jpeg", "image/png", "image/webp"}

\* Grey levels of the pixels of the uploads.
Levels == {0, 127, 128, 255}

RECURSIVE GreyImages(_)
GreyImages(n) ==
    IF n = 0 THEN { << >> }
    ELSE { << v, v, v >> \o rest : v \in Levels, rest \in GreyImages(n - 1) }

\* Upload bodies: bytes that are no image, and rasters of 1..MaxPixels
\* pixels (dark ones, light ones, and ones on either side of the threshold).
Uploads ==
    { << >>, << 71, 73, 70 >> }
    \cup { Signature \o body :
             body \in UNION { GreyImages(n) : n \in 1..MaxPixels } }

Col(n, t, pk, fk) ==
    [name |-> n, type |-> t, is_primary_key |-> pk, is_foreign_key |-> fk]

Tab(n, cols) == [name |-> n, has_columns |-> TRUE, columns |-> cols]

Rel(t) ==
    [from_table |-> "orders", from_column |-> "user_id",
     to_table |-> "users", to_column |-> "id", type |-> t]

Raw(tables, rels) ==
    [json |-> TRUE, has_tables |-> TRUE, tables |-> tables,
     has_relationships |-> TRUE, relationships |-> rels]

UsersTable == Tab("users", << Col("id", "UUID", "true", Missing) >>)

OrdersTable ==
    Tab("orders", << Col("id", "UUID", "true", "false"),
                     Col("user_id", "UUID", Missing, "true") >>)

\* Raw outputs of the extraction model: conforming ones and ones that are
\* not JSON, lack a field, or carry a type outside the enumerations.
ValidRawOutputs ==
    { Raw(<< UsersTable >>, << >>),
      Raw(<< UsersTable, OrdersTable >>, << Rel(Missing) >>) }

InvalidRawOutputs ==
    { [json |-> FALSE, has_tables |-> FALSE, tables |-> << >>,
       has_relationships |-> FALSE, relationships |-> << >>],
      [json |-> TRUE, has_tables |-> TRUE, tables |-> << UsersTable >>,
       has_relationships |-> FALSE, relationships |-> << >>],
      Raw(<< Tab("t", << Col("price", "FLOAT", Missing, Missing) >>) >>,
          << >>),
      Raw(<< Tab("t", << Col("id", "uuid", "true", Missing) >>) >>, << >>),
      Raw(<< UsersTable, OrdersTable >>, << Rel("N:1") >>) }

RawOutputs == ValidRawOutputs \cup InvalidRawOutputs

Descriptions == {"users(id uuid pk)", "orders(id, user_id fk)"}

\* What the vision call may come back with: an exception of the client, a
\* response without choices, a response whose content is a text, "" or None.
VisionResults ==
    { [raised |-> TRUE, choices |-> << >>],
      [raised |-> FALSE, choices |-> << >>] }
    \cup { [raised |-> FALSE, choices |-> << [content |-> c] >>] :
             c \in Descriptions \cup {"", None} }

\* What one structured-extraction round trip may come back with: an
\* exception of the client, or the model's raw output.
ExtractionResults ==
    { [raised |-> TRUE, raw |-> r] : r \in { CHOOSE x \in InvalidRawOutputs :
                                               ~x.json } }
    \cup { [raised |-> FALSE, raw |-> r] : r \in RawOutputs }

\* ------------------------------------------------------------------------
\* State
\* ------------------------------------------------------------------------

\* req[r]:   the frame of the generate_schema coroutine serving request r
\*           (where it stands, its arguments and locals, the retry state of
\*           its extraction call).
\* calls[r]: how often the request has invoked process_image, the vision
\*           call and the extraction call.
\* resp[r]:  the HTTP response of the request (status 0: none yet).
\* delivered[r]: what the upstream service last handed to the request's
\*           vision call and to its extraction call (<< >>: nothing yet).
VARIABLES req, calls, resp, delivered

vars == << req, calls, resp, delivered >>

\* Cap of the invocation counters.
CallCap == 4

Unset == "<unset>"

NoResponse == [status |-> 0, detail |-> "", body |-> << >>]

IdleFrame ==
    [pc |-> "Idle", content_type |-> Unset, file |-> << >>,
     content |-> << >>, b64_img |-> << >>, data_url |-> << >>,
     description |-> Unset,
     user_message |-> << >>, retries |-> 0, last_error |-> ""]

Init ==
    /\ req = [r \in Requests |-> IdleFrame]
    /\ calls = [r \in Requests |->
                  [process_image |-> 0, vision |-> 0, extraction |-> 0]]
    /\ resp = [r \in Requests |-> NoResponse]
    /\ delivered = [r \in Requests |->
                      [vision |-> << >>, extraction |-> << >>]]

Count(n) == IF n < CallCap THEN n + 1 ELSE n

\* Faulty variant: description kept in a module-level global.
MutSetFrame(rq, r, frame) ==
    [q \in Requests |->
       IF q = r THEN frame
       ELSE [rq[q] EXCEPT !.description = frame.description]]

\* A step of request r writes the locals of r's own coroutine frame.
SetFrame(rq, r, frame) == [rq EXCEPT ![r] = frame]

\* str(x) of an f-string.
PyStr(x) == IF x = None THEN "None" ELSE x

\* Faulty variant: the description left out of the user message.
MutUserMessage(description) ==
    << "Create the schema based on this description:", "" >>

\* The user message of the extraction call (line 153).
UserMessage(description) ==
    << "Create the schema based on this description:", PyStr(description) >>

\* f"data:image/png;base64,{b64_img}"
DataUrl(b64_img) == << "data:image/png;base64," >> \o b64_img

\* Faulty variant: validation exhaustion answered with another status.
MutHTTPException500(e) ==
    [status |-> IF e \in {"ValidationError", "JSONDecodeError"}
                THEN 422 ELSE 500,
     detail |-> e, body |-> << >>]

\* raise HTTPException(500, f"Processing failed: {str(e)}")
HTTPException500(e) ==
    [status |-> 500, detail |-> e, body |-> << >>]

\* raise HTTPException(400, "Invalid file type.")
HTTPException400 ==
    [status |-> 400, detail |-> "Invalid file type.", body |-> << >>]

\* Faulty variant: the handler reissues a failed vision call.
MutAfterException(pc) ==
    IF pc = "AwaitVision" THEN "CallVision" ELSE "Failed"

\* Where the coroutine stands after the except clause of lines 162-164 has
\* caught an exception raised at pc: the handler raises, the request is over.
AfterException(pc) == "Failed"

\* except Exception as e: ... raise HTTPException(500, ...)
Except(r, e) ==
    /\ req' = SetFrame(req, r, [req[r] EXCEPT !.pc = AfterException(@)])
    /\ resp' = [resp EXCEPT ![r] =
                  IF AfterException(req[r].pc) = "Failed"
                  THEN HTTPException500(e) ELSE @]

\* The request arrives and the handler runs to its first await: the
\* content-type check, then file.read() is awaited.
Begin(r, content_type, bytes) ==
    /\ req[r].pc = "Idle"
    /\ IF content_type \notin AllowedContentTypes
       THEN /\ req' = SetFrame(req, r,
                        [req[r] EXCEPT !.pc = "Failed",
                                       !.content_type = content_type,
                                       !.file = bytes])
            /\ resp' = [resp EXCEPT ![r] = HTTPException400]
       ELSE /\ req' = SetFrame(req, r,
                        [req[r] EXCEPT !.pc = "AwaitRead",
                                       !.content_type = content_type,
                                       !.file = bytes])
            /\ UNCHANGED resp
    /\ UNCHANGED << calls, delivered >>

\* content = await file.read()
ReadReturn(r, raised) ==
    /\ req[r].pc = "AwaitRead"
    /\ IF raised
       THEN Except(r, "OSError")
       ELSE /\ req' = SetFrame(req, r,
                        [req[r] EXCEPT !.pc = "Normalize",
                                       !.content = req[r].file])
            /\ UNCHANGED resp
    /\ UNCHANGED << calls, delivered >>

\* b64_img = process_image(content); data_url = f"..."
Normalize(r) ==
    /\ req[r].pc = "Normalize"
    /\ calls' = [calls EXCEPT ![r].process_image = Count(@)]
    /\ LET res == process_image(req[r].content)
       IN IF res.raised
          THEN Except(r, "Exception")
          ELSE /\ req' = SetFrame(req, r,
                           [req[r] EXCEPT !.pc = "CallVision",
                                          !.b64_img = res.v,
                                          !.data_url = DataUrl(res.v)])
               /\ UNCHANGED resp
    /\ UNCHANGED delivered

\* vision_res = await client.chat.completions.create(...): the call is sent.
CallVision(r) ==
    /\ req[r].pc = "CallVision"
    /\ calls' = [calls EXCEPT ![r].vision = Count(@)]
    /\ req' = SetFrame(req, r, [req[r] EXCEPT !.pc = "AwaitVision"])
    /\ UNCHANGED << resp, delivered >>

\* The vision call returns or raises;
\* description = vision_res.choices[0].message.content
VisionReturn(r, res) ==
    /\ req[r].pc = "AwaitVision"
    /\ IF res.raised
       THEN Except(r, "APIConnectionError")
       ELSE IF Len(res.choices) = 0
       THEN Except(r, "IndexError")
       ELSE /\ req' = SetFrame(req, r,
                        [req[r] EXCEPT !.pc = "Described",
                                       !.description =
                                           res.choices[1].content])
            /\ UNCHANGED resp
    /\ delivered' = [delivered EXCEPT ![r].vision = << res >>]
    /\ UNCHANGED calls

\* schema = await client.chat.completions.create(response_model=...,
\* max_retries=2): the first round trip is sent.
CallExtraction(r) ==
    /\ req[r].pc = "Described"
    /\ calls' = [calls EXCEPT ![r].extraction = Count(@)]
    /\ req' = SetFrame(req, r,
                [req[r] EXCEPT !.pc = "AwaitExtract",
                               !.user_message =
                                   UserMessage(req[r].description),
                               !.retries = 0])
    /\ UNCHANGED << resp, delivered >>

\* Faulty variant: the retry counter is never advanced.
MutNextRetries(n) == n

\* The retry counter after a failed validation.
NextRetries(n) == n + 1

\* Whether the retries are used up (max_retries=2).
RetriesExhausted(n) == n > max_retries

\* One round trip of the extraction call returns or raises.  Output that
\* validates is returned as the schema; output that does not is fed back
\* and the call reissued, until the retries are used up.
ExtractionReturn(r, res) ==
    /\ req[r].pc = "AwaitExtract"
    /\ delivered' = [delivered EXCEPT ![r].extraction = << res >>]
    /\ IF res.raised
       THEN Except(r, "APIConnectionError") /\ UNCHANGED calls
       ELSE LET v == Validate(res.raw)
            IN IF v.ok
               THEN /\ req' = SetFrame(req, r,
                                [req[r] EXCEPT !.pc = "Completed"])
                    /\ resp' = [resp EXCEPT ![r] =
                                  [status |-> 200, detail |-> "",
                                   body |-> v.schema]]
                    /\ UNCHANGED calls
               ELSE IF RetriesExhausted(NextRetries(req[r].retries))
               THEN /\ req' = SetFrame(req, r,
                                [req[r] EXCEPT
                                   !.pc = AfterException(@),
                                   !.retries = NextRetries(@),
                                   !.last_error = v.error])
                    /\ resp' = [resp EXCEPT ![r] = HTTPException500(v.error)]
                    /\ UNCHANGED calls
               ELSE /\ req' = SetFrame(req, r,
                                [req[r] EXCEPT
                                   !.retries = NextRetries(@),
                                   !.last_error = v.error])
                    /\ calls' = [calls EXCEPT ![r].extraction = Count(@)]
                    /\ UNCHANGED resp

\* The steps of request r, its upload drawn from the bodies U and the
\* content types CT.
Step(r, U, CT) ==
    \/ \E ct \in CT, bytes \in U : Begin(r, ct, bytes)
    \/ \E raised \in BOOLEAN : ReadReturn(r, raised)
    \/ Normalize(r)
    \/ CallVision(r)
    \/ \E res \in VisionResults : VisionReturn(r, res)
    \/ CallExtraction(r)
    \/ \E res \in ExtractionResults : ExtractionReturn(r, res)

\* One request served alone, over all uploads and content types.
Next == Step("r1", Uploads, ContentTypes)

Spec == Init /\ [][Next]_vars

\* Uploads of the concurrent runs: bytes that are no image, a dark raster
\* and a light one.
ConcurrentUploads ==
    { << 71, 73, 70 >>,
      Signature \o << 127, 127, 127 >>,
      Signature \o << 128, 128, 128, 127, 127, 127 >> }

ConcurrentContentTypes == {"image/png", "text/plain"}

\* Two requests served concurrently, their steps interleaved at will.
ConcurrentNext ==
    \E r \in Requests : Step(r, ConcurrentUploads, ConcurrentContentTypes)

ConcurrentSpec == Init /\ [][ConcurrentNext]_vars

\* Every step of a request that has arrived is eventually taken: the event
\* loop resumes the coroutine, and every awaited call returns or raises.
Resume(r) ==
    \/ \E raised \in BOOLEAN : ReadReturn(r, raised)
    \/ Normalize(r)
    \/ CallVision(r)
    \/ \E res \in VisionResults : VisionReturn(r, res)
    \/ CallExtraction(r)
    \/ \E res \in ExtractionResults : ExtractionReturn(r, res)

\* Uploads of the fair runs.
FairUploads == { Signature \o << 127, 127, 127 >> }

FairNext ==
    \E r \in Requests : Step(r, FairUploads, ConcurrentContentTypes)

\* Two concurrent requests, each step of which is eventually taken.
FairSpec ==
    /\ Init
    /\ [][FairNext]_vars
    /\ \A r \in Requests : WF_vars(Resume(r))

\* ------------------------------------------------------------------------
\* Properties
\* ------------------------------------------------------------------------

Terminal(r) == req[r].pc \in {"Completed", "Failed"}

NoCalls == [process_image |-> 0, vision |-> 0, extraction |-> 0]

\* C1: a request whose content type is none of image/jpeg, image/png,
\* image/webp is answered 400 (not 500) and has invoked neither
\* process_image nor the vision call nor the extraction call.
C1_InvalidTypeRejected ==
    \A r \in Requests :
       (/\ req[r].pc # "Idle"
        /\ req[r].content_type \notin
              {"image/jpeg", "image/png", "image/webp"})
       => /\ req[r].pc = "Failed"
          /\ resp[r].status = 400
          /\ resp[r].body = << >>
          /\ calls[r] = NoCalls

C1_Witness ==
    \E r \in Requests :
       /\ req[r].content_type = "text/plain"
       /\ resp[r].status = 400

C3_ValidSchemaOrError ==
    \A r \in Requests :
       /\ resp[r].status \in {0, 200, 400, 500}
       /\ resp[r].status # 0 <=> Terminal(r)
       /\ resp[r].status = 200 <=> req[r].pc = "Completed"
       /\ resp[r].status = 200 =>
             /\ Len(resp[r].body) = 1
             /\ IsDatabaseSchema(resp[r].body[1])
             /\ delivered[r].extraction # << >>
             /\ ~delivered[r].extraction[1].raised
             /\ delivered[r].extraction[1].raw \in ValidRawOutputs
       /\ resp[r].status # 200 => resp[r].body = << >>

C3_Witness ==
    \E r \in Requests :
       /\ resp[r].status = 200
       /\ req[r].retries = 2
       /\ Len(resp[r].body[1].tables) = 2
       /\ resp[r].body[1].relationships[1].type = "1:N"

\* C4: process_image never raises: once it has been invoked the request
\* goes on to the vision call, and where a step of the normalisation fails
\* the value it returned is the base64 encoding of the unmodified bytes.
C4_NormalizerNeverFails ==
    \A r \in Requests :
       calls[r].process_image > 0
       => /\ req[r].pc = "CallVision" \/ calls[r].vision > 0
          /\ ProcessImageTry(req[r].content).raised
                => req[r].b64_img = b64encode(req[r].content)

C4_Witness ==
    \E r \in Requests :
       /\ calls[r].process_image > 0
       /\ ~Decodable(req[r].content)
       /\ req[r].content # << >>
       /\ calls[r].vision > 0

\* C5: for a decodable image process_image returns the encoding of the
\* processed image: inverted iff its brightness is below 128, then
\* contrast-stretched.
C5_InvertIffDark ==
    \A r \in Requests :
       (calls[r].process_image > 0 /\ Decodable(req[r].content))
       => LET image == ImageOpenRGB(req[r].content)
              polar == IF Brightness(image) < 128
                       THEN Invert(image) ELSE image
          IN req[r].b64_img = b64encode(SavePNG(AutoContrast(polar)))

\* A failure of the vision stage: the call was issued and the request
\* failed without a description.
VisionFailed(r) ==
    /\ req[r].pc = "Failed"
    /\ calls[r].vision > 0
    /\ req[r].description = Unset

\* C6 as claimed: a vision call that raised, came back without choices or
\* came back with empty content was issued once and no extraction call
\* follows it.
C6_Original ==
    \A r \in Requests :
       (\/ VisionFailed(r)
        \/ req[r].description \in {"", None})
       => /\ calls[r].vision = 1
          /\ calls[r].extraction = 0

\* C6 as amended: a vision call that raised or came back without choices
\* fails the request with the vision call issued exactly once and the
\* extraction call never; the vision call is never issued twice.
C6_VisionFailureNotRetried ==
    \A r \in Requests :
       /\ calls[r].vision <= 1
       /\ (/\ delivered[r].vision # << >>
           /\ \/ delivered[r].vision[1].raised
              \/ delivered[r].vision[1].choices = << >>)
          => /\ VisionFailed(r)
             /\ resp[r].status = 500
             /\ calls[r].vision = 1
             /\ calls[r].extraction = 0

C6_Witness ==
    \E r \in Requests :
       /\ delivered[r].vision # << >>
       /\ ~delivered[r].vision[1].raised
       /\ delivered[r].vision[1].choices = << >>
       /\ VisionFailed(r)

\* The stages in their order.
Stage(pc) ==
    CASE pc = "Idle" -> 0
      [] pc \in {"AwaitRead", "Normalize"} -> 1
      [] pc \in {"CallVision", "AwaitVision"} -> 2
      [] pc = "Described" -> 3
      [] pc = "AwaitExtract" -> 4
      [] pc \in {"Completed", "Failed"} -> 5

\* C7: the stages of a request occur in the order Received, Normalized,
\* Described, Extracting, Completed and none is re-entered: the vision
\* call is issued after process_image, every extraction call after the
\* vision call has returned the description, which its user message
\* embeds, and no vision call is issued once extraction has started.
C7_StageOrder ==
    /\ [](\A r \in Requests :
            /\ calls[r].vision > 0 => calls[r].process_image = 1
            /\ calls[r].extraction > 0 =>
                  /\ calls[r].vision = 1
                  /\ delivered[r].vision # << >>
                  /\ req[r].description =
                        delivered[r].vision[1].choices[1].content
                  /\ req[r].user_message =
                        << "Create the schema based on this description:",
                           PyStr(req[r].description) >>
            /\ req[r].pc = "Completed" => calls[r].extraction > 0)
    /\ [][\A r \in Requests :
            /\ Stage(req'[r].pc) >= Stage(req[r].pc)
            /\ req'[r].pc = "Completed" => req[r].pc = "AwaitExtract"
            /\ calls[r].extraction > 0 =>
                  calls'[r].vision = calls[r].vision]_vars

C7_Witness ==
    \E r \in Requests :
       /\ req[r].pc = "Completed"
       /\ req[r].description = "orders(id, user_id fk)"
       /\ calls[r] = [process_image |-> 1, vision |-> 1, extraction |-> 2]

\* C8: a request that passed the content-type check and failed, whatever
\* failed (the read, the vision call, an extraction round trip, the
\* validation for the last time), has the response 500 with a message and
\* no schema, and issues no call after that.
C8_FailuresBecome500 ==
    /\ [](\A r \in Requests :
            (/\ req[r].pc = "Failed"
             /\ req[r].content_type \in
                   {"image/jpeg", "image/png", "image/webp"})
            => /\ resp[r].status = 500
               /\ resp[r].detail \in
                     {"OSError", "APIConnectionError", "IndexError",
                      "ValidationError", "JSONDecodeError"}
               /\ resp[r].body = << >>)
    /\ [][\A r \in Requests :
            req[r].pc = "Failed" =>
               /\ calls'[r] = calls[r]
               /\ req'[r] = req[r]
               /\ resp'[r] = resp[r]]_vars

C8_Witness ==
    \E r \in Requests :
       /\ req[r].pc = "Failed"
       /\ resp[r].status = 500
       /\ resp[r].detail = "JSONDecodeError"
       /\ calls[r].extraction = 3

\* C9: concurrent requests are independent under every interleaving: a
\* step changes the state of one request only, and what a request holds is
\* a function of its own upload and of the responses delivered to it (its
\* description is the content of its own vision response, its user message
\* embeds its own description, its schema is the validated form of its own
\* last extraction output, its attempts are its own validation failures
\* plus the call outstanding or answered last).
C9_RequestsIndependent ==
    /\ [][\E r \in Requests :
            \A q \in Requests \ {r} :
               /\ req'[q] = req[q]
               /\ calls'[q] = calls[q]
               /\ resp'[q] = resp[q]
               /\ delivered'[q] = delivered[q]]_vars
    /\ [](\A r \in Requests :
            /\ req[r].content \in {<< >>, req[r].file}
            /\ calls[r].process_image > 0 =>
                  /\ req[r].content = req[r].file
                  /\ req[r].b64_img = process_image(req[r].file).v
            /\ req[r].description # Unset =>
                  /\ delivered[r].vision # << >>
                  /\ req[r].description =
                        delivered[r].vision[1].choices[1].content
            /\ calls[r].extraction > 0 =>
                  /\ req[r].user_message[2] = PyStr(req[r].description)
                  /\ calls[r].extraction =
                        (IF req[r].retries > max_retries
                         THEN req[r].retries ELSE req[r].retries + 1)
            /\ resp[r].status = 200 =>
                  resp[r].body =
                     Validate(delivered[r].extraction[1].raw).schema)

C9_Witness ==
    /\ req["r1"].pc = "AwaitExtract"
    /\ req["r1"].retries = 1
    /\ req["r2"].pc = "AwaitExtract"
    /\ req["r2"].retries = 2
    /\ req["r1"].description # req["r2"].description
    /\ req["r1"].file # req["r2"].file

\* C10: provided every awaited call returns or raises, every request that
\* has arrived reaches Completed or Failed, never both, and takes no step
\* after that.
C10_Terminates ==
    /\ \A r \in Requests : (req[r].pc # "Idle") ~> Terminal(r)
    /\ [](\A r \in Requests :
            /\ req[r].pc = "Completed" => resp[r].status = 200
            /\ req[r].pc = "Failed" => resp[r].status \in {400, 500})
    /\ [][\A r \in Requests :
            Terminal(r) =>
               /\ req'[r] = req[r]
               /\ calls'[r] = calls[r]
               /\ resp'[r] = resp[r]
               /\ delivered'[r] = delivered[r]]_vars

C10_Witness ==
    /\ req["r1"].pc = "Completed"
    /\ req["r1"].retries = 2
    /\ req["r2"].pc = "Failed"
    /\ req["r2"].retries = 3

====
